---- MODULE Spec2Model ----
(***************************************************************************)
(* Model of lib/charms/ovn.py: the SimpleOVSDB table client (_find_tbl,    *)
(* __iter__, find, set, clear, remove) and the control-socket status       *)
(* helpers (ovs_appctl, cluster_status, is_cluster_leader,                 *)
(* is_northd_active), all of them on top of _run.                          *)
(*                                                                         *)
(* Python values are tagged records, so that isinstance() and comparisons  *)
(* between values of different types can be expressed:                     *)
(*   Str(s)   a str; s is a TLA+ string (opaque) or a sequence of          *)
(*            one-character strings (text that the code scans)             *)
(*   List(l)  a list, Tuple(l) a tuple, Bool(b), None, Dict(d)             *)
(* Text that the code scans character by character (the output of          *)
(* ovs-appctl) is a sequence of one-character strings.                     *)
(***************************************************************************)
EXTENDS Integers, Sequences, FiniteSets, TLC

VARIABLES
    tool,      \* self.tool of the SimpleOVSDB instance
    tbl,       \* self.tbl of the SimpleOVSDB instance
    call,      \* the operation in progress and its arguments
    pc,        \* position inside the operation
    argv,      \* the argument tuple handed to _run by this operation
    runs,      \* number of times this operation has called _run
    cp,        \* the process _run started: its exit status and its stdout
    lines,     \* cluster_status / is_northd_active: lines still to handle
    status,    \* cluster_status: the dict being built
    k,         \* cluster_status: the current key
    data,      \* _find_tbl: the value of json.loads(cp.stdout)
    idx,       \* _find_tbl: number of rows of data['data'] already handled
    yielded,   \* _find_tbl: the rows the consumer has received so far
    result,    \* the value returned by the operation
    exc        \* the exception raised out of the operation ("" for none)

vars == <<tool, tbl, call, pc, argv, runs, cp, lines, status, k, data, idx,
          yielded, result, exc>>

---------------------------------------------------------------------------
(* Python values *)

Str(s) == [t |-> "str", s |-> s]
List(l) == [t |-> "list", l |-> l]
Tuple(l) == [t |-> "tuple", l |-> l]
Bool(b) == [t |-> "bool", b |-> b]
Dict(d) == [t |-> "dict", d |-> d]
None == [t |-> "None"]

\* The empty dict: a function with no key.
EmptyDict == [x \in {} |-> None]

\* d[key] = v on a dict held as a function.
DictSet(d, key, v) ==
    [x \in (DOMAIN d) \cup {key} |-> IF x = key THEN v ELSE d[x]]

\* Python truthiness of an Optional[str] (None and '' are false).
Truthy(v) == v.t = "str" /\ v.s # ""

---------------------------------------------------------------------------
(* str methods, on sequences of one-character strings *)

Whitespace == {" ", "\t"}

\* s.startswith(p)
startswith(s, p) == Len(s) >= Len(p) /\ SubSeq(s, 1, Len(p)) = p

\* sub in s
contains(s, sub) ==
    \E i \in 1..(Len(s) - Len(sub) + 1) : SubSeq(s, i, i + Len(sub) - 1) = sub

\* c in s, for one character
has_char(s, c) == \E i \in 1..Len(s) : s[i] = c

\* s.lstrip()
RECURSIVE lstrip(_)
lstrip(s) ==
    IF s # <<>> /\ Head(s) \in Whitespace THEN lstrip(Tail(s)) ELSE s

\* index of the first occurrence of character c in s (c occurs in s)
first_index(s, c) == CHOOSE i \in 1..Len(s) : s[i] = c /\ \A j \in 1..(i - 1) : s[j] # c

\* s.split(c, 1) for a character c that occurs in s: <<before, after>>
split_once(s, c) ==
    LET i == first_index(s, c)
    IN  <<SubSeq(s, 1, i - 1), SubSeq(s, i + 1, Len(s))>>

Upper == <<"A", "B", "C", "D", "E", "F", "G", "H", "I", "J", "K", "L", "M",
           "N", "O", "P", "Q", "R", "S", "T", "U", "V", "W", "X", "Y", "Z">>
Lower == <<"a", "b", "c", "d", "e", "f", "g", "h", "i", "j", "k", "l", "m",
           "n", "o", "p", "q", "r", "s", "t", "u", "v", "w", "x", "y", "z">>

lower_char(c) ==
    IF \E i \in 1..Len(Upper) : Upper[i] = c
    THEN Lower[CHOOSE i \in 1..Len(Upper) : Upper[i] = c]
    ELSE c

\* s.lower()
lower(s) == [i \in 1..Len(s) |-> lower_char(s[i])]

\* s.replace(a, b) for characters a and b
replace_char(s, a, b) == [i \in 1..Len(s) |-> IF s[i] = a THEN b ELSE s[i]]

\* s.replace(a, '') for a character a
RECURSIVE remove_char(_, _)
remove_char(s, a) ==
    IF s = <<>> THEN <<>>
    ELSE IF Head(s) = a THEN remove_char(Tail(s), a)
    ELSE <<Head(s)>> \o remove_char(Tail(s), a)

\* s.split(): the maximal runs of non-whitespace characters, in order
RECURSIVE split_ws(_, _)
split_ws(s, word) ==
    IF s = <<>> THEN (IF word = <<>> THEN <<>> ELSE <<word>>)
    ELSE IF Head(s) \in Whitespace
         THEN (IF word = <<>> THEN <<>> ELSE <<word>>) \o split_ws(Tail(s), <<>>)
         ELSE split_ws(Tail(s), Append(word, Head(s)))

split(s) == split_ws(s, <<>>)

\* s.splitlines(), for text whose only line boundary is "\n"
RECURSIVE splitlines_from(_, _)
splitlines_from(s, line) ==
    IF s = <<>> THEN (IF line = <<>> THEN <<>> ELSE <<line>>)
    ELSE IF Head(s) = "\n" THEN <<line>> \o splitlines_from(Tail(s), <<>>)
    ELSE splitlines_from(Tail(s), Append(line, Head(s)))

splitlines(s) == splitlines_from(s, <<>>)

---------------------------------------------------------------------------
(* Text literals of the source, as sequences of characters *)

txt_self == <<"s", "e", "l", "f">>
txt_leader == <<"l", "e", "a", "d", "e", "r">>
txt_cluster_id == <<"c", "l", "u", "s", "t", "e", "r", "_", "i", "d">>
txt_server_id == <<"s", "e", "r", "v", "e", "r", "_", "i", "d">>
txt_Status == <<"S", "t", "a", "t", "u", "s", ":">>
txt_active == <<"a", "c", "t", "i", "v", "e">>

OVS_RUNDIR == "/var/run/openvswitch"

---------------------------------------------------------------------------
(* Inputs: what callers pass and what the external tools print *)

\* Bounds of the enumerated tool outputs.
MaxLines == 3
MaxRows == 2

Tools == {"ovs-vsctl"}
Tables == {"port"}
Targets == {"ovnnb_db", "ovnsb_db", "ovsdb-server"}
Schemas == {None, Str("Custom")}

\* Lines a `cluster/status` report is made of.
StatusLines ==
    { <<"L", "e", "a", "d", "e", "r", ":", " ", "s", "e", "l", "f">>,
      <<"L", "e", "a", "d", "e", "r", ":", " ", "x">>,
      <<"S", "e", "r", "v", "e", "r", "s", ":">>,
      <<" ", "a", ":", "1">>,
      <<"C", "l", "u", "s", "t", "e", "r", " ", "I", "D", ":", " ", "a", "b",
        " ", "(", "a", "b", ")">>,
      <<"S", "e", "r", "v", "e", "r", " ", "I", "D", ":", " ", "a", "b">>,
      <<"S", "e", "r", "v", "e", "r", " ", "I", "D", ":", " ", "a", " ", "(",
        "b", ")", " ", "c">>,
      <<"j", "u", "n", "k">> }

\* Lines an ovn-northd `status` report is made of.
NorthdLines ==
    { <<"S", "t", "a", "t", "u", "s", ":", " ", "a", "c", "t", "i", "v", "e">>,
      <<"S", "t", "a", "t", "u", "s", ":", " ", "s", "t", "a", "n", "d", "b",
        "y">>,
      <<"S", "t", "a", "t", "u", "s", ":", " ", "i", "n", "a", "c", "t", "i",
        "v", "e">>,
      <<" ", "S", "t", "a", "t", "u", "s", ":", " ", "a", "c", "t", "i", "v",
        "e">>,
      <<"a", "c", "t", "i", "v", "e">>,
      <<>> }

\* Raw column values of the query tool's JSON: a scalar, a tagged pair, a
\* tagged pair whose payload is itself a pair, and lists of other lengths.
ColValues ==
    { Str("br-int"),
      List(<<Str("uuid"), Str("1234")>>),
      List(<<Str("set"), List(<<Str("uuid"), Str("5678")>>)>>),
      List(<<Str("x")>>),
      List(<<Str("a"), Str("b"), Str("c")>>),
      List(<<>>) }

HeadingLists == { <<Str("name")>>, <<Str("name"), Str("_uuid")>> }

Rows ==
    {<<>>} \cup { <<v>> : v \in ColValues }
           \cup { <<Str("br-int"), v>> : v \in ColValues }

DataLists ==
    UNION { [1..n -> { List(r) : r \in Rows }] : n \in 0..MaxRows }

\* The JSON objects the query tool may print: with or without each of the
\* keys 'headings' and 'data'.
Docs ==
    { [x \in {"headings", "data"} |->
          IF x = "headings" THEN List(h) ELSE List(d)] :
      h \in HeadingLists, d \in DataLists }
    \cup { [x \in {"data"} |-> List(d)] : d \in DataLists }
    \cup { [x \in {"headings"} |-> List(h)] : h \in HeadingLists }
    \cup { EmptyDict }

\* The text of a JSON document stands for the value it encodes; any other
\* text is not JSON.
JsonText(v) == [t |-> "str", encodes |-> v]
NotJson == Str("ovs-vsctl: no table")

QueryOutputs == { JsonText(Dict(d)) : d \in Docs } \cup { NotJson }

Conditions == { None, Str(""), Str("name=eth0") }

\* The text a tool prints for a sequence of lines: each line ends in "\n".
RECURSIVE Text(_)
Text(ls) == IF ls = <<>> THEN <<>> ELSE Head(ls) \o <<"\n">> \o Text(Tail(ls))

Reports(LineSet) ==
    { Text(ls) : ls \in UNION { [1..n -> LineSet] : n \in 0..MaxLines } }

---------------------------------------------------------------------------
(* ovs_appctl and cluster_status: the command *)

\* ovs_appctl: the two OVN database daemons are addressed by socket path.
socket_of(target) ==
    IF target \in {"ovnnb_db", "ovnsb_db"}
    THEN OVS_RUNDIR \o "/" \o target \o ".ctl"
    ELSE target

\* schema_map.get(target)
schema_map_get(target) ==
    CASE target = "ovnnb_db" -> Str("OVN_Northbound")
      [] target = "ovnsb_db" -> Str("OVN_Southbound")
      [] OTHER -> None

\* schema or schema_map.get(target)
schema_arg(target, schema) ==
    IF Truthy(schema) THEN schema ELSE schema_map_get(target)

\* The arguments ovs_appctl hands to _run.
ovs_appctl_args(target, args) ==
    <<Str("ovs-appctl"), Str("-t"), Str(socket_of(target))>> \o args

cluster_status_args(target, schema) ==
    ovs_appctl_args(target, <<Str("cluster/status"), schema_arg(target, schema)>>)

northd_args == ovs_appctl_args("ovn-northd", <<Str("status")>>)

\* subprocess.run refuses an argument that is not a string before it starts
\* any process.
bad_args(args) == \E i \in 1..Len(args) : args[i].t # "str"

---------------------------------------------------------------------------
(* cluster_status: the parser *)

\* status[k].append(line.lstrip()): only a list has append.
continuation(st, key, line) ==
    IF st[key].t = "list"
    THEN [status |-> DictSet(st, key, List(Append(st[key].l, lstrip(line)))),
          k |-> key, exc |-> ""]
    ELSE [status |-> st, k |-> key, exc |-> "AttributeError"]

\* The value stored for key `key` whose remainder v is not empty.
field_value(key, v) ==
    IF key \in {txt_cluster_id, txt_server_id}
    THEN Tuple(split(remove_char(remove_char(v, "("), ")")))
    ELSE Str(lstrip(v))

\* A line with a colon sets the current key and its value.
key_line(st, line) ==
    LET kv == split_once(line, ":")
        key == replace_char(lower(kv[1]), " ", "_")
        v == kv[2]
    IN  [status |-> DictSet(st, key,
                            IF v # <<>> THEN field_value(key, v) ELSE List(<<>>)),
         k |-> key, exc |-> ""]

\* One iteration of the loop over the output's lines.
parse_line(st, key, line) ==
    IF key # <<>> /\ startswith(line, <<" ">>) THEN continuation(st, key, line)
    ELSE IF has_char(line, ":") THEN key_line(st, line)
    ELSE [status |-> st, k |-> key, exc |-> ""]

\* A leadership test that only asks whether the report has a leader.
leader_is_set(st) == txt_leader \in DOMAIN st

\* cluster_status(...).get('leader') == 'self'
leader_is_self(st) ==
    /\ txt_leader \in DOMAIN st
    /\ st[txt_leader].t = "str"
    /\ st[txt_leader].s = txt_self

\* A test that accepts any status line.
northd_line_is_status(line) == startswith(line, txt_Status)

\* is_northd_active: the test applied to each line.
northd_line_matches(line) ==
    startswith(line, txt_Status) /\ contains(line, txt_active)

\* A handler that calls the command again when it has failed.
on_exception_retry(op, e) ==
    IF op \in {"is_cluster_leader", "is_northd_active"} /\ e = "CalledProcessError"
    THEN [pc |-> "appctl", result |-> None, exc |-> ""]
    ELSE [pc |-> "done", result |-> None, exc |-> e]

\* What becomes of an exception raised inside an operation: is_cluster_leader
\* and is_northd_active turn CalledProcessError into False, every other
\* exception and every other operation lets it out.
on_exception(op, e) ==
    IF op \in {"is_cluster_leader", "is_northd_active"} /\ e = "CalledProcessError"
    THEN [pc |-> "done", result |-> Bool(FALSE), exc |-> ""]
    ELSE [pc |-> "done", result |-> None, exc |-> e]

---------------------------------------------------------------------------
(* The state machine *)

NoCall == [op |-> "idle", target |-> "", schema |-> None, condition |-> None,
           rec |-> "", col |-> "", value |-> ""]

\* _run: the command is installed, so a started process either exits with
\* status 0 and its output, or with another status (CalledProcessError, the
\* one exception _run documents).
\* No process has been started.
NoProcess == [started |-> FALSE, returncode |-> 0, stdout |-> None]

\* The process exited with status 0 and printed out.
Completed(out) == [started |-> TRUE, returncode |-> 0, stdout |-> out]

\* The process exited with a status other than 0: check=True makes
\* subprocess.run raise CalledProcessError.
Failed == [started |-> TRUE, returncode |-> 1, stdout |-> None]

\* After SimpleOVSDB(tool, table); no operation is in progress.
Init ==
    /\ tool \in Tools
    /\ tbl \in Tables
    /\ call = NoCall
    /\ pc = "idle"
    /\ argv = <<>>
    /\ runs = 0
    /\ cp = NoProcess
    /\ lines = <<>>
    /\ status = EmptyDict
    /\ k = <<>>
    /\ data = None
    /\ idx = 0
    /\ yielded = <<>>
    /\ result = None
    /\ exc = ""

\* The operation ends by raising e (or by the handler of its try block).
Raise(e) ==
    LET h == on_exception(call.op, e)
    IN  /\ pc' = h.pc
        /\ result' = h.result
        /\ exc' = h.exc

\* cluster_status(target, schema) is called.
CallClusterStatus ==
    /\ pc = "idle"
    /\ \E target \in Targets, schema \in Schemas :
          call' = [NoCall EXCEPT !.op = "cluster_status", !.target = target,
                                 !.schema = schema]
    /\ pc' = "appctl"
    /\ UNCHANGED <<tool, tbl, argv, runs, cp, lines, status, k, data, idx,
                   yielded, result, exc>>

\* is_cluster_leader(target, schema) is called.
CallIsClusterLeader ==
    /\ pc = "idle"
    /\ \E target \in Targets, schema \in Schemas :
          call' = [NoCall EXCEPT !.op = "is_cluster_leader", !.target = target,
                                 !.schema = schema]
    /\ pc' = "appctl"
    /\ UNCHANGED <<tool, tbl, argv, runs, cp, lines, status, k, data, idx,
                   yielded, result, exc>>

\* is_northd_active() is called.
CallIsNorthdActive ==
    /\ pc = "idle"
    /\ call' = [NoCall EXCEPT !.op = "is_northd_active"]
    /\ pc' = "appctl"
    /\ UNCHANGED <<tool, tbl, argv, runs, cp, lines, status, k, data, idx,
                   yielded, result, exc>>

\* The arguments of the ovs_appctl call of the operation in progress.
appctl_args ==
    IF call.op = "is_northd_active" THEN northd_args
    ELSE cluster_status_args(call.target, call.schema)

\* ovs_appctl(...).splitlines(): _run is called; the arguments are refused,
\* the command fails, or it prints a report.
Appctl ==
    /\ pc = "appctl"
    /\ argv' = appctl_args
    /\ runs' = runs + 1
    /\ IF bad_args(appctl_args)
       THEN Raise("TypeError") /\ UNCHANGED <<cp, lines>>
       ELSE \E ok \in BOOLEAN :
              IF ok
              THEN /\ \E out \in Reports(IF call.op = "is_northd_active"
                                         THEN NorthdLines ELSE StatusLines) :
                        /\ cp' = Completed(Str(out))
                        /\ lines' = splitlines(out)
                   /\ pc' = IF call.op = "is_northd_active" THEN "scan" ELSE "parse"
                   /\ UNCHANGED <<result, exc>>
              ELSE /\ cp' = Failed
                   /\ Raise("CalledProcessError")
                   /\ UNCHANGED lines
    /\ UNCHANGED <<tool, tbl, call, status, k, data, idx, yielded>>

\* cluster_status: one iteration of the for loop.
ParseLine ==
    /\ pc = "parse"
    /\ lines # <<>>
    /\ LET r == parse_line(status, k, Head(lines))
       IN  /\ status' = r.status
           /\ k' = r.k
           /\ IF r.exc # ""
              THEN Raise(r.exc) /\ UNCHANGED lines
              ELSE lines' = Tail(lines) /\ UNCHANGED <<pc, result, exc>>
    /\ UNCHANGED <<tool, tbl, call, argv, runs, cp, data, idx, yielded>>

\* cluster_status: the loop is over; return status.  is_cluster_leader
\* returns the comparison of its 'leader' with 'self'.
StatusReturn ==
    /\ pc = "parse"
    /\ lines = <<>>
    /\ result' = IF call.op = "is_cluster_leader"
                 THEN Bool(leader_is_self(status))
                 ELSE Dict(status)
    /\ pc' = "done"
    /\ UNCHANGED <<tool, tbl, call, argv, runs, cp, lines, status, k, data,
                   idx, yielded, exc>>

\* is_northd_active: one iteration of the for loop; return True on a match.
ScanLine ==
    /\ pc = "scan"
    /\ lines # <<>>
    /\ IF northd_line_matches(Head(lines))
       THEN result' = Bool(TRUE) /\ pc' = "done" /\ UNCHANGED lines
       ELSE lines' = Tail(lines) /\ UNCHANGED <<pc, result>>
    /\ UNCHANGED <<tool, tbl, call, argv, runs, cp, status, k, data, idx,
                   yielded, exc>>

\* is_northd_active: no line matched; return False.
ScanReturn ==
    /\ pc = "scan"
    /\ lines = <<>>
    /\ result' = Bool(FALSE)
    /\ pc' = "done"
    /\ UNCHANGED <<tool, tbl, call, argv, runs, cp, lines, status, k, data,
                   idx, yielded, exc>>

---------------------------------------------------------------------------
(* SimpleOVSDB *)

\* json.loads(cp.stdout)
json_loads(out) ==
    IF "encodes" \in DOMAIN out
    THEN [value |-> out.encodes, exc |-> ""]
    ELSE [value |-> None, exc |-> "JSONDecodeError"]

\* The command of _find_tbl.
find_cmd(tl, tb, condition) ==
    <<Str(tl), Str("-f"), Str("json"), Str("find"), Str(tb)>>
    \o (IF Truthy(condition) THEN <<condition>> ELSE <<>>)

\* The commands of clear, remove and set.
clear_cmd(tl, tb, rec, col) ==
    <<Str(tl), Str("clear"), Str(tb), Str(rec), Str(col)>>

remove_cmd(tl, tb, rec, col, value) ==
    <<Str(tl), Str("remove"), Str(tb), Str(rec), Str(col), Str(value)>>

set_cmd(tl, tb, rec, col, value) ==
    <<Str(tl), Str("set"), Str(tb), Str(rec), Str(col \o "=" \o value)>>

\* A decoding that keeps col[0], the tag, instead of col[1].
decode_tag(col) ==
    IF col.t = "list"
    THEN IF Len(col.l) >= 1
         THEN [value |-> col.l[1], exc |-> ""]
         ELSE [value |-> None, exc |-> "IndexError"]
    ELSE [value |-> col, exc |-> ""]

\* The inner loop's body: col[1] for a list, col itself otherwise.
decode(col) ==
    IF col.t = "list"
    THEN IF Len(col.l) >= 2
         THEN [value |-> col.l[2], exc |-> ""]
         ELSE [value |-> None, exc |-> "IndexError"]
    ELSE [value |-> col, exc |-> ""]

\* The inner loop: the list `values` of a row, unless a column raises.
decode_row(row) ==
    IF \E i \in 1..Len(row) : decode(row[i]).exc # ""
    THEN [values |-> <<>>, exc |-> "IndexError"]
    ELSE [values |-> [i \in 1..Len(row) |-> decode(row[i]).value], exc |-> ""]

Min(a, b) == IF a <= b THEN a ELSE b

\* A zip that stops one pair early.
zip_dict_short(headings, values) ==
    LET n == Min(Len(headings), Len(values)) - 1
    IN  [h \in { headings[i].s : i \in 1..n } |->
            values[CHOOSE i \in 1..n : headings[i].s = h]]

\* dict(zip(headings, values)): pairs up to the shorter of the two; a
\* heading that occurs twice keeps its last value.
zip_dict(headings, values) ==
    LET n == Min(Len(headings), Len(values))
        last(h) == CHOOSE i \in 1..n :
                      /\ headings[i].s = h
                      /\ \A j \in (i + 1)..n : headings[j].s # h
    IN  [h \in { headings[i].s : i \in 1..n } |-> values[last(h)]]

\* The body of the loop over data['data'], for one row: the row yielded, or
\* the exception that the row's decoding or data['headings'] raises.
find_row(doc, row) ==
    LET r == decode_row(row.l)
    IN  IF r.exc # "" THEN [row |-> None, exc |-> r.exc]
        ELSE IF "headings" \notin DOMAIN doc.d THEN [row |-> None, exc |-> "KeyError"]
        ELSE [row |-> Dict(zip_dict(doc.d["headings"].l, r.values)), exc |-> ""]

\* iter(instance): __iter__ returns the generator _find_tbl(); nothing of
\* its body has run yet.
CallIter ==
    /\ pc = "idle"
    /\ call' = [NoCall EXCEPT !.op = "list"]
    /\ pc' = "gen"
    /\ UNCHANGED <<tool, tbl, argv, runs, cp, lines, status, k, data, idx,
                   yielded, result, exc>>

\* find(condition) returns the generator _find_tbl(condition=condition).
CallFind ==
    /\ pc = "idle"
    /\ \E condition \in Conditions :
          call' = [NoCall EXCEPT !.op = "find", !.condition = condition]
    /\ pc' = "gen"
    /\ UNCHANGED <<tool, tbl, argv, runs, cp, lines, status, k, data, idx,
                   yielded, result, exc>>

\* clear(rec, col), remove(rec, col, value), set(rec, col, value)
CallClear ==
    /\ pc = "idle"
    /\ call' = [NoCall EXCEPT !.op = "clear", !.rec = "1234",
                              !.col = "external_ids"]
    /\ pc' = "tool"
    /\ UNCHANGED <<tool, tbl, argv, runs, cp, lines, status, k, data, idx,
                   yielded, result, exc>>

CallRemove ==
    /\ pc = "idle"
    /\ call' = [NoCall EXCEPT !.op = "remove", !.rec = "1234",
                              !.col = "external_ids", !.value = "charm"]
    /\ pc' = "tool"
    /\ UNCHANGED <<tool, tbl, argv, runs, cp, lines, status, k, data, idx,
                   yielded, result, exc>>

CallSet ==
    /\ pc = "idle"
    /\ call' = [NoCall EXCEPT !.op = "set", !.rec = "1234",
                              !.col = "external_ids:charm", !.value = "managed"]
    /\ pc' = "tool"
    /\ UNCHANGED <<tool, tbl, argv, runs, cp, lines, status, k, data, idx,
                   yielded, result, exc>>

tool_cmd ==
    CASE call.op = "clear" -> clear_cmd(tool, tbl, call.rec, call.col)
      [] call.op = "remove" -> remove_cmd(tool, tbl, call.rec, call.col, call.value)
      [] call.op = "set" -> set_cmd(tool, tbl, call.rec, call.col, call.value)

\* clear, remove, set: the one call of _run; its result is discarded.
RunTool ==
    /\ pc = "tool"
    /\ argv' = tool_cmd
    /\ runs' = runs + 1
    /\ \E ok \in BOOLEAN :
          IF ok
          THEN cp' = Completed(Str("")) /\ pc' = "done" /\ UNCHANGED <<result, exc>>
          ELSE cp' = Failed /\ Raise("CalledProcessError")
    /\ UNCHANGED <<tool, tbl, call, lines, status, k, data, idx, yielded>>

\* _find_tbl, first next(): the command is built and run.
GenRun ==
    /\ pc = "gen"
    /\ argv' = find_cmd(tool, tbl, call.condition)
    /\ runs' = runs + 1
    /\ \E ok \in BOOLEAN :
          IF ok
          THEN /\ \E out \in QueryOutputs : cp' = Completed(out)
               /\ pc' = "loads"
               /\ UNCHANGED <<result, exc>>
          ELSE cp' = Failed /\ Raise("CalledProcessError")
    /\ UNCHANGED <<tool, tbl, call, lines, status, k, data, idx, yielded>>

\* _find_tbl: data = json.loads(cp.stdout), then the for statement
\* evaluates data['data'].
GenLoads ==
    /\ pc = "loads"
    /\ LET r == json_loads(cp.stdout)
       IN  IF r.exc # "" THEN Raise(r.exc) /\ UNCHANGED data
           ELSE /\ data' = r.value
                /\ IF "data" \in DOMAIN r.value.d
                   THEN pc' = "rows" /\ UNCHANGED <<result, exc>>
                   ELSE Raise("KeyError")
    /\ UNCHANGED <<tool, tbl, call, argv, runs, cp, lines, status, k, idx,
                   yielded>>

\* _find_tbl: the loop body for the next row, up to its yield.
GenRow ==
    /\ pc = "rows"
    /\ idx < Len(data.d["data"].l)
    /\ LET r == find_row(data, data.d["data"].l[idx + 1])
       IN  IF r.exc # "" THEN Raise(r.exc) /\ UNCHANGED <<idx, yielded>>
           ELSE /\ yielded' = Append(yielded, r.row)
                /\ idx' = idx + 1
                /\ UNCHANGED <<pc, result, exc>>
    /\ UNCHANGED <<tool, tbl, call, argv, runs, cp, lines, status, k, data>>

\* _find_tbl: the loop is over; the generator is exhausted.
GenStop ==
    /\ pc = "rows"
    /\ idx = Len(data.d["data"].l)
    /\ pc' = "done"
    /\ UNCHANGED <<tool, tbl, call, argv, runs, cp, lines, status, k, data,
                   idx, yielded, result, exc>>

\* The caller has the outcome; the instance is ready for the next operation.
Finish ==
    /\ pc = "done"
    /\ call' = NoCall
    /\ pc' = "idle"
    /\ argv' = <<>>
    /\ runs' = 0
    /\ cp' = NoProcess
    /\ lines' = <<>>
    /\ status' = EmptyDict
    /\ k' = <<>>
    /\ data' = None
    /\ idx' = 0
    /\ yielded' = <<>>
    /\ result' = None
    /\ exc' = ""
    /\ UNCHANGED <<tool, tbl>>

Next ==
    \/ CallIter
    \/ CallFind
    \/ CallClear
    \/ CallRemove
    \/ CallSet
    \/ RunTool
    \/ GenRun
    \/ GenLoads
    \/ GenRow
    \/ GenStop
    \/ CallClusterStatus
    \/ CallIsClusterLeader
    \/ CallIsNorthdActive
    \/ Appctl
    \/ ParseLine
    \/ StatusReturn
    \/ ScanLine
    \/ ScanReturn
    \/ Finish

Spec == Init /\ [][Next]_vars

---------------------------------------------------------------------------
(* Properties *)

Finding == call.op \in {"list", "find"}
Loaded == Finding /\ data.t = "dict"
HasBothKeys == Loaded /\ DOMAIN data.d = {"headings", "data"}
headings_of == data.d["headings"].l
rows_of == data.d["data"].l
InClusterStatus == call.op \in {"cluster_status", "is_cluster_leader"}

\* The wire format: a value is a scalar or a two-element [tag, payload].
IsWireValue(col) == col.t = "str" \/ (col.t = "list" /\ Len(col.l) = 2)

\* A well-formed output: both keys, every row aligned with the headings,
\* every value a wire value.
WellFormed ==
    /\ HasBothKeys
    /\ \A i \in 1..Len(rows_of) :
          /\ Len(rows_of[i].l) = Len(headings_of)
          /\ \A j \in 1..Len(rows_of[i].l) : IsWireValue(rows_of[i].l[j])

\* C1: for a well-formed output, the rows come out one per data row and in
\* data order, without error; each has exactly the headings as keys and
\* holds, under heading j, what column j of its data row carries; when the
\* sequence ends, Len(data) rows have been yielded (none for empty data).
C1_RowPerDataRow ==
    (WellFormed /\ pc \in {"rows", "done"}) =>
        /\ exc = ""
        /\ Len(yielded) = idx
        /\ idx <= Len(rows_of)
        /\ (pc = "done" => Len(yielded) = Len(rows_of))
        /\ \A i \in 1..Len(yielded) :
              /\ yielded[i].t = "dict"
              /\ DOMAIN yielded[i].d =
                    { headings_of[j].s : j \in 1..Len(headings_of) }
              /\ \A j \in 1..Len(headings_of) :
                    yielded[i].d[headings_of[j].s] =
                        (IF rows_of[i].l[j].t = "list"
                         THEN rows_of[i].l[j].l[2] ELSE rows_of[i].l[j])

\* C1 witness: a well-formed output of two rows with a tagged value has been
\* consumed to its end.
C1_Witness ==
    /\ WellFormed
    /\ pc = "done"
    /\ Len(yielded) = 2
    /\ \E i \in 1..2, j \in 1..Len(headings_of) : rows_of[i].l[j].t = "list"

IsShortList(col) == col.t = "list" /\ Len(col.l) < 2

\* The columns of data row i that zip pairs with a heading.
PairedColumns(i) == 1..Min(Len(headings_of), Len(rows_of[i].l))

\* C2 as claimed: a two-element list decodes to its second element and every
\* other raw value, lists of other lengths included, decodes to itself (so
\* no row fails to decode).
C2_OnlyPairsUnwrapped ==
    HasBothKeys =>
        /\ exc # "IndexError"
        /\ \A i \in 1..Len(yielded) : \A j \in PairedColumns(i) :
              yielded[i].d[headings_of[j].s] =
                  (IF rows_of[i].l[j].t = "list" /\ Len(rows_of[i].l[j].l) = 2
                   THEN rows_of[i].l[j].l[2] ELSE rows_of[i].l[j])

\* C2 amended: a list of two or more elements decodes to its second element
\* unchanged, a value that is not a list decodes to itself, and a list of
\* fewer than two elements cannot be decoded: the row that holds one raises
\* IndexError instead of being yielded.
C2_ListsUnwrapped ==
    HasBothKeys =>
        /\ \A i \in 1..Len(yielded) :
              /\ \A j \in 1..Len(rows_of[i].l) : ~IsShortList(rows_of[i].l[j])
              /\ \A j \in PairedColumns(i) :
                    yielded[i].d[headings_of[j].s] =
                        (IF rows_of[i].l[j].t = "list"
                         THEN rows_of[i].l[j].l[2] ELSE rows_of[i].l[j])
        /\ (pc = "done" /\ Len(yielded) < Len(rows_of)) =>
              (exc = "IndexError" <=>
                  \E j \in 1..Len(rows_of[Len(yielded) + 1].l) :
                      IsShortList(rows_of[Len(yielded) + 1].l[j]))

\* C2 witness: a yielded row holds the second element of a three-element
\* list, and another output has failed on a one-element list.
C2_Witness ==
    /\ HasBothKeys
    /\ \E i \in 1..Len(yielded) : \E j \in PairedColumns(i) :
          /\ rows_of[i].l[j] = List(<<Str("a"), Str("b"), Str("c")>>)
          /\ yielded[i].d[headings_of[j].s] = Str("b")
    /\ exc = "IndexError"

\* C3 as claimed: an error is only ever raised before any row was yielded.
C3_NoPartialSuccess == (Finding /\ exc # "") => yielded = <<>>

\* C4 as claimed: an output that lacks 'headings' or 'data' always ends in
\* an error, never in a normally completed sequence.
C4_MissingKeyRaises ==
    (Loaded /\ pc = "done" /\ ~HasBothKeys) => exc # ""

C6_ContinuationOnList ==
    InClusterStatus =>
        /\ (pc = "parse" /\ lines # <<>> /\ k # <<>>
              /\ startswith(Head(lines), <<" ">>)) => status[k].t = "list"
        /\ exc \in {"", "CalledProcessError", "TypeError"}

\* C7 as claimed: cluster_id and server_id are lists (empty remainder) or
\* 2-tuples free of parentheses; every other field is a string or a list.
C7_ValueShapes ==
    InClusterStatus =>
        \A key \in DOMAIN status :
            IF key \in {txt_cluster_id, txt_server_id}
            THEN \/ status[key].t = "list"
                 \/ /\ status[key].t = "tuple"
                    /\ Len(status[key].l) = 2
                    /\ \A i \in 1..Len(status[key].l) :
                          /\ ~has_char(status[key].l[i], "(")
                          /\ ~has_char(status[key].l[i], ")")
            ELSE status[key].t \in {"str", "list"}

\* C8 as claimed: the command is ovs-appctl -t <socket> cluster/status
\* <schema>, with the socket and the schema resolved from the target and
\* the explicit schema, and every argument a string.
C8_WellFormedCommand ==
    (InClusterStatus /\ runs > 0) =>
        /\ Len(argv) = 5
        /\ \A i \in 1..Len(argv) : argv[i].t = "str"
        /\ argv[1] = Str("ovs-appctl")
        /\ argv[2] = Str("-t")
        /\ argv[3] = Str(CASE call.target = "ovnnb_db" ->
                                  "/var/run/openvswitch/ovnnb_db.ctl"
                           [] call.target = "ovnsb_db" ->
                                  "/var/run/openvswitch/ovnsb_db.ctl"
                           [] OTHER -> call.target)
        /\ argv[4] = Str("cluster/status")
        /\ call.schema # None => argv[5] = call.schema
        /\ (call.schema = None /\ call.target = "ovnnb_db") =>
              argv[5] = Str("OVN_Northbound")
        /\ (call.schema = None /\ call.target = "ovnsb_db") =>
              argv[5] = Str("OVN_Southbound")

C10_OneInvocation ==
    /\ [](/\ runs <= 1
          /\ pc \in {"loads", "rows", "parse", "scan", "done"} => runs = 1
          /\ (data # None \/ yielded # <<>> \/ lines # <<>>
                \/ DOMAIN status # {}) => runs = 1)
    /\ [][tool' = tool /\ tbl' = tbl]_vars

\* C10 witness: an operation whose command failed has ended after one call.
C10_Witness ==
    /\ pc = "done"
    /\ runs = 1
    /\ cp.started
    /\ cp.returncode # 0

====
